---- MODULE Spec2Model ----
(***************************************************************************)
(* Tic-tac-toe game server (src/main.py): the registry of games, the       *)
(* board evaluator (check_winner, check_tie), the search opponent          *)
(* (make_algorithm_move, minimax) and the request handlers (create_game,   *)
(* get_board, make_move).                                                  *)
(***************************************************************************)
EXTENDS Integers, Sequences, FiniteSets, TLC

VARIABLES
    games,      \* the registry: game id -> Game (main.py:28)
    resp,       \* the last request served and the response it got
    probe,      \* a direct call of a pure function: its argument and result
    tasks       \* make_move coroutines in flight on the event loop

vars == <<games, resp, probe, tasks>>

----------------------------------------------------------------------------
(* Values *)

N == 3                       \* side of the board: range(3)
Rng == 0 .. (N - 1)          \* range(3)
Marks == {"X", "O"}
Empty == ""
None == "None"
NoBoard == <<>>              \* a response that carries no board
NoMove == <<>>               \* best_move = None

\* float('-inf') and float('inf'): below and above every score in {-1, 0, 1}
NegInf == -2
PosInf == 2

\* board=[["" for _ in range(3)] for _ in range(3)]
EmptyBoard == [i \in Rng |-> [j \in Rng |-> Empty]]

AllBoards == [Rng -> [Rng -> {Empty, "X", "O"}]]

\* board[i][j] = mark
Place(board, i, j, mark) == [board EXCEPT ![i][j] = mark]

\* the cells in the order of "for i in range(3): for j in range(3)"
RowMajor == [k \in 1 .. (N * N) |-> <<(k - 1) \div N, (k - 1) % N>>]

Cells == Rng \X Rng

Count(board, mark) == Cardinality({c \in Cells : board[c[1]][c[2]] = mark})

----------------------------------------------------------------------------
(* Board evaluator *)

\* a == b == c != ""
Same3(a, b, c) == a = b /\ b = c /\ c # Empty

\* faulty variant of WinnerFrom: the anti-diagonal is not tested
RECURSIVE WinnerFrom_noAnti(_, _)
WinnerFrom_noAnti(board, i) ==
    IF i < N
    THEN IF Same3(board[i][0], board[i][1], board[i][2]) THEN board[i][0]
         ELSE IF Same3(board[0][i], board[1][i], board[2][i]) THEN board[0][i]
         ELSE WinnerFrom_noAnti(board, i + 1)
    ELSE IF Same3(board[0][0], board[1][1], board[2][2]) THEN board[0][0]
    ELSE None

\* check_winner from iteration i of "for i in range(3)" on: row i, then
\* column i; after the loop the main diagonal, then the anti-diagonal
RECURSIVE WinnerFrom(_, _)
WinnerFrom(board, i) ==
    IF i < N
    THEN IF Same3(board[i][0], board[i][1], board[i][2]) THEN board[i][0]
         ELSE IF Same3(board[0][i], board[1][i], board[2][i]) THEN board[0][i]
         ELSE WinnerFrom(board, i + 1)
    ELSE IF Same3(board[0][0], board[1][1], board[2][2]) THEN board[0][0]
    ELSE IF Same3(board[0][2], board[1][1], board[2][0]) THEN board[0][2]
    ELSE None

check_winner(board) == WinnerFrom(board, 0)

check_tie(board) == \A i \in Rng : \A j \in Rng : board[i][j] # Empty

----------------------------------------------------------------------------
(* Search opponent *)

\* faulty variant of MaxOf: the maximizing player takes the smallest score
MaxOf_asMin(S) == IF S = {} THEN NegInf ELSE CHOOSE x \in S : \A y \in S : x <= y

\* best_score = max(score, best_score) and min(score, best_score), over the loop
MaxOf(S) == IF S = {} THEN NegInf ELSE CHOOSE x \in S : \A y \in S : y <= x
MinOf(S) == IF S = {} THEN PosInf ELSE CHOOSE x \in S : \A y \in S : x <= y

EmptyCells(board) == {c \in Cells : board[c[1]][c[2]] = Empty}

\* faulty variant of minimax: scores the position at hand and looks no further
minimax_blind(board, depth, is_maximizing) ==
    LET winner == check_winner(board)
    IN  IF winner = "O" THEN 1 ELSE IF winner = "X" THEN -1 ELSE 0

RECURSIVE minimax(_, _, _)
minimax(board, depth, is_maximizing) ==
    LET winner == check_winner(board)
    IN  IF winner = "O" THEN 1
        ELSE IF winner = "X" THEN -1
        ELSE IF \A i \in Rng : \A j \in Rng : board[i][j] # Empty THEN 0
        ELSE IF is_maximizing
             THEN MaxOf({minimax(Place(board, c[1], c[2], "O"), depth + 1, FALSE) :
                            c \in EmptyCells(board)})
             ELSE MinOf({minimax(Place(board, c[1], c[2], "X"), depth + 1, TRUE) :
                            c \in EmptyCells(board)})

\* faulty variant of Undo: the tentative mark is left on the board
Undo_skipped(board, i, j) == board

\* board[i][j] = ""
Undo(board, i, j) == Place(board, i, j, Empty)

\* minimax on the one board list it is handed, which it marks and unmarks as
\* it goes: [score, board], the score returned and the list as it is left.
\* MaxLoop and MinLoop are its two "for i: for j:" loops from cell k on.
RECURSIVE minimax_in_place(_, _, _)
RECURSIVE MaxLoop(_, _, _, _)
RECURSIVE MinLoop(_, _, _, _)
MaxLoop(board, depth, k, best_score) ==
    IF k > Len(RowMajor) THEN [score |-> best_score, board |-> board]
    ELSE LET c == RowMajor[k]
         IN  IF board[c[1]][c[2]] = Empty
             THEN LET r == minimax_in_place(Place(board, c[1], c[2], "O"), depth + 1, FALSE)
                  IN  MaxLoop(Undo(r.board, c[1], c[2]), depth, k + 1,
                              IF r.score > best_score THEN r.score ELSE best_score)
             ELSE MaxLoop(board, depth, k + 1, best_score)

MinLoop(board, depth, k, best_score) ==
    IF k > Len(RowMajor) THEN [score |-> best_score, board |-> board]
    ELSE LET c == RowMajor[k]
         IN  IF board[c[1]][c[2]] = Empty
             THEN LET r == minimax_in_place(Place(board, c[1], c[2], "X"), depth + 1, TRUE)
                  IN  MinLoop(Undo(r.board, c[1], c[2]), depth, k + 1,
                              IF r.score < best_score THEN r.score ELSE best_score)
             ELSE MinLoop(board, depth, k + 1, best_score)

minimax_in_place(board, depth, is_maximizing) ==
    LET winner == check_winner(board)
    IN  IF winner = "O" THEN [score |-> 1, board |-> board]
        ELSE IF winner = "X" THEN [score |-> -1, board |-> board]
        ELSE IF \A i \in Rng : \A j \in Rng : board[i][j] # Empty
             THEN [score |-> 0, board |-> board]
        ELSE IF is_maximizing THEN MaxLoop(board, depth, 1, NegInf)
        ELSE MinLoop(board, depth, 1, PosInf)

\* faulty variant of BestFrom: a later cell with an equal score replaces the
\* earlier one (>= for >)
RECURSIVE BestFrom_lastMax(_, _, _, _)
BestFrom_lastMax(board, k, best_score, best_move) ==
    IF k > Len(RowMajor) THEN <<best_score, best_move>>
    ELSE LET c == RowMajor[k]
         IN  IF board[c[1]][c[2]] = Empty
             THEN LET score == minimax(Place(board, c[1], c[2], "O"), 0, FALSE)
                  IN  IF score >= best_score
                      THEN BestFrom_lastMax(board, k + 1, score, c)
                      ELSE BestFrom_lastMax(board, k + 1, best_score, best_move)
             ELSE BestFrom_lastMax(board, k + 1, best_score, best_move)

\* the loop of make_algorithm_move from cell k on: <<best_score, best_move>>
RECURSIVE BestFrom(_, _, _, _)
BestFrom(board, k, best_score, best_move) ==
    IF k > Len(RowMajor) THEN <<best_score, best_move>>
    ELSE LET c == RowMajor[k]
         IN  IF board[c[1]][c[2]] = Empty
             THEN LET score == minimax(Place(board, c[1], c[2], "O"), 0, FALSE)
                  IN  IF score > best_score
                      THEN BestFrom(board, k + 1, score, c)
                      ELSE BestFrom(board, k + 1, best_score, best_move)
             ELSE BestFrom(board, k + 1, best_score, best_move)

\* faulty variant of best_move: the first empty cell, whatever its score
best_move_first(board) ==
    IF EmptyCells(board) = {}
    THEN NoMove
    ELSE RowMajor[CHOOSE k \in 1 .. Len(RowMajor) :
                      /\ RowMajor[k] \in EmptyCells(board)
                      /\ \A h \in 1 .. (k - 1) : RowMajor[h] \notin EmptyCells(board)]

\* The loop's result on the nine boards that hold a single X, the costliest
\* searches, worked out once by the loop itself and kept.
OpeningReply ==
    [board \in {Place(EmptyBoard, c[1], c[2], "X") : c \in Cells} |->
        BestFrom(board, 1, NegInf, NoMove)[2]] @@ <<>>

\* the cell make_algorithm_move settles on, NoMove when there is no empty cell
best_move(board) ==
    IF board \in DOMAIN OpeningReply
    THEN OpeningReply[board]
    ELSE BestFrom(board, 1, NegInf, NoMove)[2]

\* the board as make_algorithm_move leaves it
make_algorithm_move(board) ==
    LET bm == best_move(board)
    IN  IF bm # NoMove THEN Place(board, bm[1], bm[2], "O") ELSE board

----------------------------------------------------------------------------
(* Game engine *)

\* Game(id=game_id, board=[[""]*3]*3, current_player="X", against_algorithm=...)
NewGame(game_id, against_algorithm) ==
    [id |-> game_id, board |-> EmptyBoard, current_player |-> "X",
     against_algorithm |-> against_algorithm]

\* faulty variant of CellTaken: an occupied cell is not turned down
CellTaken_never(game, move) == FALSE

\* game.board[move.row][move.col] != ""
CellTaken(game, move) == game.board[move.row][move.col] # Empty

\* faulty variant of NotYourTurn: the turn is not checked
NotYourTurn_never(game, move) == FALSE

\* move.player != game.current_player
NotYourTurn(game, move) == move.player # game.current_player

\* faulty variant of OtherPlayer: the turn is not handed over
OtherPlayer_same(current_player) == current_player

\* "O" if game.current_player == "X" else "X"
OtherPlayer(current_player) == IF current_player = "X" THEN "O" ELSE "X"

\* faulty variant of AlgorithmTurn: the automated move is made for O in every
\* game, human-only ones included
AlgorithmTurn_everyGame(game) == game.current_player = "O"

\* game.against_algorithm and game.current_player == "O"
AlgorithmTurn(game) == game.against_algorithm /\ game.current_player = "O"

\* What a call hands back: the game as the call leaves it and the response,
\* which is {"message": "Player <winner> wins!", "board"} (win),
\* {"message": "It's a tie!", "board"} (tie), {"board", "next_player"} (next),
\* {"board"} (board) or an HTTPException (not_found, cell_taken, not_your_turn)
Out(game, kind, winner, next_player) ==
    [game |-> game,
     resp |-> [kind |-> kind, winner |-> winner,
               board |-> IF kind \in {"win", "tie", "next", "board"}
                         THEN game.board ELSE NoBoard,
               next_player |-> next_player]]

\* faulty variant of AfterAlgorithmMove: current_player is not handed back to "X"
AfterAlgorithmMove_keepsO(game) ==
    LET winner == check_winner(game.board)
    IN  IF winner # None THEN Out(game, "win", winner, None)
        ELSE IF check_tie(game.board) THEN Out(game, "tie", None, None)
        ELSE Out(game, "next", None, "X")

\* make_move after the automated move is on the board
AfterAlgorithmMove(game) ==
    LET winner == check_winner(game.board)
    IN  IF winner # None THEN Out(game, "win", winner, None)
        ELSE IF check_tie(game.board) THEN Out(game, "tie", None, None)
        ELSE Out([game EXCEPT !.current_player = "X"], "next", None, "X")

\* faulty variant of AfterWrite: the turn is handed over before the winner is
\* looked for, so that a won game is left on the loser's turn
AfterWrite_flipsFirst(game) ==
    LET flipped == [game EXCEPT !.current_player = OtherPlayer(game.current_player)]
        winner == check_winner(game.board)
    IN  IF winner # None THEN Out(flipped, "win", winner, None)
        ELSE IF check_tie(game.board) THEN Out(flipped, "tie", None, None)
        ELSE IF AlgorithmTurn(flipped)
             THEN AfterAlgorithmMove(
                      [flipped EXCEPT !.board = make_algorithm_move(flipped.board)])
             ELSE Out(flipped, "next", None, flipped.current_player)

\* faulty variant of AfterWrite: the full board is tested before the winner
AfterWrite_tieFirst(game) ==
    IF check_tie(game.board) THEN Out(game, "tie", None, None)
    ELSE LET winner == check_winner(game.board)
         IN  IF winner # None THEN Out(game, "win", winner, None)
             ELSE LET flipped ==
                          [game EXCEPT !.current_player = OtherPlayer(game.current_player)]
                  IN  IF AlgorithmTurn(flipped)
                      THEN AfterAlgorithmMove(
                               [flipped EXCEPT !.board = make_algorithm_move(flipped.board)])
                      ELSE Out(flipped, "next", None, flipped.current_player)

\* make_move once the submitted mark is on the board
AfterWrite(game) ==
    LET winner == check_winner(game.board)
    IN  IF winner # None THEN Out(game, "win", winner, None)
        ELSE IF check_tie(game.board) THEN Out(game, "tie", None, None)
        ELSE LET flipped ==
                     [game EXCEPT !.current_player = OtherPlayer(game.current_player)]
             IN  IF AlgorithmTurn(flipped)
                 THEN AfterAlgorithmMove(
                          [flipped EXCEPT !.board = make_algorithm_move(flipped.board)])
                 ELSE Out(flipped, "next", None, flipped.current_player)

\* faulty variant of Handle: the turn is checked before the cell
Handle_turnFirst(game, move) ==
    IF NotYourTurn(game, move) THEN Out(game, "not_your_turn", None, None)
    ELSE IF CellTaken(game, move) THEN Out(game, "cell_taken", None, None)
    ELSE AfterWrite([game EXCEPT
             !.board = Place(game.board, move.row, move.col, move.player)])

\* make_move on a registered game
Handle(game, move) ==
    IF CellTaken(game, move) THEN Out(game, "cell_taken", None, None)
    ELSE IF NotYourTurn(game, move) THEN Out(game, "not_your_turn", None, None)
    ELSE AfterWrite([game EXCEPT
             !.board = Place(game.board, move.row, move.col, move.player)])

NotFound == [kind |-> "not_found", winner |-> None, board |-> NoBoard, next_player |-> None]

NoResponse == [kind |-> None, winner |-> None, board |-> NoBoard, next_player |-> None]

----------------------------------------------------------------------------
(* Request handlers *)

\* what a client puts in a Move: player "X" | "O", row and col in 0..2
PlayerInputs == {"X", "O"}
CoordInputs == Rng
MoveInputs == [player : PlayerInputs, row : CoordInputs, col : CoordInputs]

\* faulty variant of make_move: all games share one board, as rows built with
\* [[""] * 3] * 3 once and handed to every Game would
make_move_sharedBoard(game_id, move) ==
    /\ IF game_id \notin DOMAIN games
       THEN /\ resp' = NotFound
            /\ UNCHANGED games
       ELSE \E game \in {games[game_id]} : \E out \in {Handle(game, move)} :
                /\ games' = [g \in DOMAIN games |->
                                IF g = game_id THEN out.game
                                ELSE [games[g] EXCEPT !.board = out.game.board]]
                /\ resp' = out.resp
    /\ UNCHANGED <<probe, tasks>>

\* POST /move/{game_id}
make_move(game_id, move) ==
    /\ IF game_id \notin DOMAIN games
       THEN /\ resp' = NotFound
            /\ UNCHANGED games
       ELSE \E game \in {games[game_id]} : \E out \in {Handle(game, move)} :
                /\ games' = [games EXCEPT ![game_id] = out.game]
                /\ resp' = out.resp
    /\ UNCHANGED <<probe, tasks>>

\* faulty variant of get_board: reading a registered game hands the turn over
get_board_flips(game_id) ==
    /\ resp' = IF game_id \notin DOMAIN games
               THEN NotFound
               ELSE Out(games[game_id], "board", None, None).resp
    /\ games' = [g \in DOMAIN games |->
                    IF g = game_id
                    THEN [games[g] EXCEPT
                             !.current_player = OtherPlayer(games[g].current_player)]
                    ELSE games[g]]
    /\ UNCHANGED <<probe, tasks>>

\* GET /board/{game_id}
get_board(game_id) ==
    /\ resp' = IF game_id \notin DOMAIN games
               THEN NotFound
               ELSE Out(games[game_id], "board", None, None).resp
    /\ UNCHANGED <<games, probe, tasks>>

----------------------------------------------------------------------------
(* One game, played to the end and beyond *)

TheGame == "g1"
UnknownGame == "g0"
IdInputs == {TheGame, UnknownGame}

InitGame ==
    /\ \E against_algorithm \in BOOLEAN :
           games = [g \in {TheGame} |-> NewGame(TheGame, against_algorithm)]
    /\ resp = NoResponse
    /\ probe = None
    /\ tasks = <<>>

MakeMove == \E game_id \in IdInputs : \E move \in MoveInputs : make_move(game_id, move)
GetBoard == \E game_id \in IdInputs : get_board(game_id)

NextGame == MakeMove \/ GetBoard

SpecGame == InitGame /\ [][NextGame]_vars

----------------------------------------------------------------------------
(* Vocabulary of the properties, stated without the evaluator's code *)

Lines ==
    {{<<i, j>> : j \in Rng} : i \in Rng} \cup {{<<i, j>> : i \in Rng} : j \in Rng}
        \cup {{<<i, i>> : i \in Rng}, {<<i, N - 1 - i>> : i \in Rng}}

HasLine(board, mark) == \E line \in Lines : \A c \in line : board[c[1]][c[2]] = mark
AnyLine(board) == \E mark \in Marks : HasLine(board, mark)
Full(board) == \A c \in Cells : board[c[1]][c[2]] # Empty
Changed(b1, b2) == {c \in Cells : b1[c[1]][c[2]] # b2[c[1]][c[2]]}
Balanced(board) ==
    /\ Count(board, "X") - Count(board, "O") <= 1
    /\ Count(board, "O") - Count(board, "X") <= 1

G == games[TheGame]
Rejected == {"cell_taken", "not_your_turn"}
Answered == {"win", "tie", "next"}

----------------------------------------------------------------------------
(* check_winner called on an arbitrary board *)

Pending == "pending"

InitWinner ==
    /\ games = <<>>
    /\ resp = NoResponse
    /\ tasks = <<>>
    /\ \E board \in AllBoards : probe = [board |-> board, result |-> Pending]

CallCheckWinner ==
    /\ probe.result = Pending
    /\ probe' = [probe EXCEPT !.result = check_winner(probe.board)]
    /\ UNCHANGED <<games, resp, tasks>>

NextWinner == CallCheckWinner

SpecWinner == InitWinner /\ [][NextWinner]_vars

----------------------------------------------------------------------------
(* make_algorithm_move called on the boards of alternating legal play *)

InitSearch ==
    /\ games = <<>>
    /\ resp = NoResponse
    /\ tasks = <<>>
    /\ probe = [board |-> EmptyBoard, turn |-> "X", called |-> FALSE, choice |-> NoMove]

\* the player to move takes an empty cell of an undecided board
Play ==
    /\ ~AnyLine(probe.board)
    /\ \E c \in EmptyCells(probe.board) :
           probe' = [board |-> Place(probe.board, c[1], c[2], probe.turn),
                     turn |-> OtherPlayer(probe.turn),
                     called |-> FALSE, choice |-> NoMove]
    /\ UNCHANGED <<games, resp, tasks>>

\* with O to move, the search opponent is asked for its move
ChooseMove ==
    /\ probe.turn = "O"
    /\ ~probe.called
    /\ ~AnyLine(probe.board)
    /\ ~Full(probe.board)
    /\ probe' = [probe EXCEPT !.called = TRUE, !.choice = best_move(probe.board)]
    /\ UNCHANGED <<games, resp, tasks>>

NextSearch == Play \/ ChooseMove

SpecSearch == InitSearch /\ [][NextSearch]_vars

----------------------------------------------------------------------------
(* Concurrent make_move calls on one game *)

\* the number of calls in flight at once
MaxCalls == 2

\* faulty variant of AwaitPoints: the coroutine yields between its checks and its write
AwaitPoints_afterChecks == {"checked"}

\* make_move is a coroutine (async def) that the server's event loop runs up
\* to its next await; its body, lines 149-177, contains no await
AwaitPoints == {}

NoGame == NewGame(UnknownGame, FALSE)

\* a request has arrived and its coroutine is scheduled
NewTask(move) ==
    [move |-> move, pc |-> "ready", kind |-> None, seen |-> NoGame,
     wrote_on |-> NoGame, inflight |-> {}]

InFlight(t) == {u \in DOMAIN tasks : u # t /\ tasks[u].pc # "done"}

\* lines 153-156 on the game as it is now; then line 158 onwards, unless the
\* coroutine yields first
RunFromStart(game, task, t) ==
    IF CellTaken(game, task.move)
    THEN [game |-> game, resp |-> Out(game, "cell_taken", None, None).resp,
          task |-> [task EXCEPT !.pc = "done", !.kind = "cell_taken",
                                !.seen = game, !.inflight = InFlight(t)]]
    ELSE IF NotYourTurn(game, task.move)
    THEN [game |-> game, resp |-> Out(game, "not_your_turn", None, None).resp,
          task |-> [task EXCEPT !.pc = "done", !.kind = "not_your_turn",
                                !.seen = game, !.inflight = InFlight(t)]]
    ELSE IF "checked" \in AwaitPoints
    THEN [game |-> game, resp |-> resp,
          task |-> [task EXCEPT !.pc = "checked", !.seen = game]]
    ELSE LET out == AfterWrite([game EXCEPT !.board =
                        Place(game.board, task.move.row, task.move.col, task.move.player)])
         IN  [game |-> out.game, resp |-> out.resp,
              task |-> [task EXCEPT !.pc = "done", !.kind = out.resp.kind,
                                    !.seen = game, !.wrote_on = game,
                                    !.inflight = InFlight(t)]]

\* line 158 onwards on the game as it is when the coroutine is resumed
RunFromChecked(game, task, t) ==
    LET out == AfterWrite([game EXCEPT !.board =
                   Place(game.board, task.move.row, task.move.col, task.move.player)])
    IN  [game |-> out.game, resp |-> out.resp,
         task |-> [task EXCEPT !.pc = "done", !.kind = out.resp.kind,
                               !.wrote_on = game, !.inflight = InFlight(t)]]

\* A human-only game: the automated reply (lines 168-175) runs inside the same
\* stretch of the coroutine as the write, so it adds no interleaving; games
\* against the algorithm are explored call by call in SpecGame.
InitLoop ==
    /\ games = [g \in {TheGame} |-> NewGame(TheGame, FALSE)]
    /\ resp = NoResponse
    /\ probe = None
    /\ tasks = <<>>

\* a client posts a move while other calls may be in flight
Accept ==
    /\ Len(tasks) < MaxCalls
    /\ \E move \in MoveInputs : tasks' = Append(tasks, NewTask(move))
    /\ UNCHANGED <<games, resp, probe>>

\* the event loop runs one coroutine up to its next await or its return
Run ==
    \E t \in DOMAIN tasks :
        /\ tasks[t].pc # "done"
        /\ \E game \in {games[TheGame]} :
           \E ran \in {IF tasks[t].pc = "ready"
                       THEN RunFromStart(game, tasks[t], t)
                       ELSE RunFromChecked(game, tasks[t], t)} :
               /\ games' = [games EXCEPT ![TheGame] = ran.game]
               /\ resp' = ran.resp
               /\ tasks' = [tasks EXCEPT ![t] = ran.task]
        /\ UNCHANGED probe

NextLoop == Accept \/ Run

SpecLoop == InitLoop /\ [][NextLoop]_vars

----------------------------------------------------------------------------
(* C1 *)

\* C1: in an against-algorithm game no reachable board holds a line of three
\* X and no make_move call returns a winner outcome naming X.
C1_AutomatedPlayerNeverLoses ==
    G.against_algorithm =>
        /\ ~HasLine(G.board, "X")
        /\ ~(resp.kind = "win" /\ resp.winner = "X")

\* an against-algorithm game played to a full board, the call returning a tie
C1_Witness ==
    /\ G.against_algorithm
    /\ Full(G.board)
    /\ resp.kind = "tie"

----------------------------------------------------------------------------
(* C2 *)

\* C2: a make_move call onto an occupied cell, and one whose player is not
\* current_player, is rejected, and leaves the board and current_player of
\* the game as they were.
C2_RejectedMovesChangeNothing ==
    [][\A move \in MoveInputs :
           (/\ \/ G.board[move.row][move.col] # Empty
               \/ move.player # G.current_player
            /\ make_move(TheGame, move))
           => (resp'.kind \in Rejected /\ games' = games)]_vars

\* a rejected call on a game that has marks on its board
C2_Witness ==
    /\ resp.kind \in Rejected
    /\ Count(G.board, "X") >= 1
    /\ Count(G.board, "O") >= 1

----------------------------------------------------------------------------
(* C3 *)

\* the automated move has ended the game: its mark completed a line (or
\* filled the board) and current_player was left on "O"
EndedByAutomatedMove(game) ==
    /\ game.current_player = "O"
    /\ HasLine(game.board, "O") \/ Full(game.board)

\* C3: in a human-only game an accepted move answered with a continuation
\* flips current_player to the other mark; in an against-algorithm game
\* current_player is "X" after every call unless the automated move ended
\* the game.
C3_TurnAlternation ==
    [][/\ (~G.against_algorithm /\ resp'.kind = "next" /\ games' # games)
            => /\ G'.current_player # G.current_player
               /\ G'.current_player \in Marks
               /\ resp'.next_player = G'.current_player
       /\ G.against_algorithm
            => \/ G'.current_player = "X"
               \/ /\ G.current_player = "X"
                  /\ Cardinality(Changed(G.board, G'.board)) = 2
                  /\ resp'.kind \in {"win", "tie"}
                  /\ EndedByAutomatedMove(G')
               \/ /\ EndedByAutomatedMove(G)
                  /\ EndedByAutomatedMove(G')]_vars

\* both cases: a human-only game with O to move after a continuation, and an
\* against-algorithm game handed back to X after the automated reply
C3_WitnessHuman ==
    /\ ~G.against_algorithm
    /\ resp.kind = "next"
    /\ G.current_player = "O"

C3_Witness ==
    /\ G.against_algorithm
    /\ resp.kind = "next"
    /\ Count(G.board, "O") = 2
    /\ G.current_player = "X"

----------------------------------------------------------------------------
(* C4 *)

\* C4 as stated: in every reachable state, calls after a terminal outcome
\* included, the numbers of X and of O on the board differ by at most 1.
C4_AsStated == G.board \in AllBoards /\ Balanced(G.board)

\* C4 amended: every cell holds "", "X" or "O", and every call made while no
\* line of three is on the board leaves the numbers of X and O differing by
\* at most 1.
C4_BalancedUntilDecided ==
    [][/\ G'.board \in AllBoards
       /\ ~AnyLine(G.board) => Balanced(G'.board)]_vars

\* a call that completed a line and left the counts one apart
C4_Witness ==
    /\ resp.kind = "win"
    /\ Count(G.board, "X") = 3
    /\ Count(G.board, "O") = 2

----------------------------------------------------------------------------
(* C5 *)

\* C5 as stated: in an against-algorithm game no make_move call whose
\* player is "O" is ever accepted.
C5_AsStated ==
    [][\A move \in MoveInputs :
           (G.against_algorithm /\ move.player = "O" /\ make_move(TheGame, move))
           => games' = games]_vars

\* C5 amended: in an against-algorithm game no make_move call whose player
\* is "O" is accepted as long as no line of three O is on the board.
C5_NoHumanOUntilAutomatedWin ==
    [][\A move \in MoveInputs :
           (/\ G.against_algorithm
            /\ move.player = "O"
            /\ ~HasLine(G.board, "O")
            /\ make_move(TheGame, move))
           => (resp'.kind \in Rejected /\ games' = games)]_vars

\* a call with player "O" turned down in an against-algorithm game in play
C5_Witness ==
    /\ G.against_algorithm
    /\ resp.kind = "not_your_turn"
    /\ G.current_player = "X"
    /\ Count(G.board, "O") >= 1
    /\ ~AnyLine(G.board)

----------------------------------------------------------------------------
(* C7 *)

\* C7: an accepted make_move call returns, judged on the board as the call
\* leaves it, the winner outcome naming m iff the board has a line of three
\* m, the tie outcome iff it has no line and is full, and the continuation
\* outcome otherwise.
C7_OutcomeClassification ==
    resp.kind \in Answered =>
        /\ resp.board = G.board
        /\ \A mark \in Marks :
               (resp.kind = "win" /\ resp.winner = mark) <=> HasLine(G.board, mark)
        /\ resp.kind = "tie" <=> (~AnyLine(G.board) /\ Full(G.board))
        /\ resp.kind = "next" <=> (~AnyLine(G.board) /\ ~Full(G.board))
        /\ resp.kind = "next" => resp.next_player = G.current_player

\* the move that fills the last empty cell completes a line
C7_Witness ==
    /\ resp.kind = "win"
    /\ Full(G.board)
    /\ Count(G.board, "X") = 5
    /\ Count(G.board, "O") = 4

----------------------------------------------------------------------------
(* C9 *)

C9_Board == Place(Place(EmptyBoard, 0, 0, "X"), 1, 1, "O")

\* C9: in a fresh against-algorithm game, X at (0,0) is answered with a
\* continuation whose board has X at (0,0), one O at (1,1) and nothing else,
\* and next_player "X".
C9_CornerOpeningReply ==
    (G.against_algorithm /\ G.board[0][0] = "X" /\ Count(G.board, "X") = 1)
        => /\ G.board = C9_Board
           /\ G.current_player = "X"
           /\ resp.kind \in Answered
                => resp = [kind |-> "next", winner |-> None, board |-> C9_Board,
                           next_player |-> "X"]

\* the response to the opening X at (0,0)
C9_Witness ==
    /\ G.against_algorithm
    /\ G.board[0][0] = "X"
    /\ Count(G.board, "X") = 1
    /\ resp.kind = "next"

----------------------------------------------------------------------------
(* C6 *)

\* X, with `turn` to move, can force a line of three X whatever O plays
RECURSIVE XForcesWin(_, _)
XForcesWin(board, turn) ==
    IF HasLine(board, "X") THEN TRUE
    ELSE IF HasLine(board, "O") \/ Full(board) THEN FALSE
    ELSE IF turn = "X"
         THEN \E c \in EmptyCells(board) : XForcesWin(Place(board, c[1], c[2], "X"), "O")
         ELSE \A c \in EmptyCells(board) : XForcesWin(Place(board, c[1], c[2], "O"), "X")

\* the empty cells where an O leaves X without a forced win
SafeCells(board) ==
    {c \in EmptyCells(board) : ~XForcesWin(Place(board, c[1], c[2], "O"), "X")}

\* C6: on every board of alternating legal play with O to move, no winner
\* and an empty cell, if some empty cell leaves X without a forced win then
\* the cell make_algorithm_move chooses is such a cell.
C6_SearchIsSound ==
    probe.called =>
        (SafeCells(probe.board) # {} => probe.choice \in SafeCells(probe.board))

\* a board where some replies lose and some do not, and the first empty cell
\* is a losing one
C6_Witness ==
    /\ probe.called
    /\ probe.choice \in SafeCells(probe.board)
    /\ \E c \in EmptyCells(probe.board) :
           /\ c \notin SafeCells(probe.board)
           /\ \/ c[1] < probe.choice[1]
              \/ c[1] = probe.choice[1] /\ c[2] < probe.choice[2]

----------------------------------------------------------------------------
(* C8 *)

\* the lines in the order row 0, column 0, row 1, column 1, row 2, column 2,
\* main diagonal, anti-diagonal
ScanOrder ==
    << {<<0, 0>>, <<0, 1>>, <<0, 2>>}, {<<0, 0>>, <<1, 0>>, <<2, 0>>},
       {<<1, 0>>, <<1, 1>>, <<1, 2>>}, {<<0, 1>>, <<1, 1>>, <<2, 1>>},
       {<<2, 0>>, <<2, 1>>, <<2, 2>>}, {<<0, 2>>, <<1, 2>>, <<2, 2>>},
       {<<0, 0>>, <<1, 1>>, <<2, 2>>}, {<<0, 2>>, <<1, 1>>, <<2, 0>>} >>

LineOf(board, line, mark) == \A c \in line : board[c[1]][c[2]] = mark

\* C8 as stated: on every board check_winner returns m iff some line is
\* three m, and none iff no line is three identical marks.
C8_AsStated ==
    probe.result # Pending =>
        /\ \A mark \in Marks : probe.result = mark <=> HasLine(probe.board, mark)
        /\ probe.result = None <=> ~AnyLine(probe.board)

\* C8 amended: check_winner returns none iff no line is three identical
\* marks; a mark it returns has a line; a mark that alone has a line is
\* returned; and when both marks have lines it returns the mark of the line
\* that comes first in the scan order.
C8_FirstLineInScanOrder ==
    probe.result # Pending =>
        /\ probe.result = None <=> ~AnyLine(probe.board)
        /\ probe.result \in Marks => HasLine(probe.board, probe.result)
        /\ \A mark \in Marks :
               (HasLine(probe.board, mark) /\ \A other \in Marks \ {mark} :
                                                 ~HasLine(probe.board, other))
                   => probe.result = mark
        /\ \A k \in 1 .. Len(ScanOrder) : \A mark \in Marks :
               (/\ LineOf(probe.board, ScanOrder[k], mark)
                /\ \A h \in 1 .. (k - 1) : \A other \in Marks :
                       ~LineOf(probe.board, ScanOrder[h], other))
                   => probe.result = mark

\* a board with a line of each mark, O's coming first in the scan order
C8_Witness ==
    /\ probe.result = "O"
    /\ HasLine(probe.board, "X")
    /\ HasLine(probe.board, "O")

----------------------------------------------------------------------------
(* C10 *)

Applied(t) == tasks[t].pc = "done" /\ tasks[t].kind \in Answered

\* C10: concurrent make_move calls on one game behave as if run one after
\* the other: every call that writes its mark writes it on the very game
\* state its checks passed on, and no two calls that write passed their
\* checks on the same game state.
C10_CallsAreSerial ==
    /\ \A t \in DOMAIN tasks : Applied(t) => tasks[t].seen = tasks[t].wrote_on
    /\ \A t1, t2 \in DOMAIN tasks :
           (t1 # t2 /\ Applied(t1) /\ Applied(t2)) => tasks[t1].seen # tasks[t2].seen

\* two calls by the same player in flight together: the one run first is
\* applied, the other is turned down as not its turn
C10_Witness ==
    \E t1, t2 \in DOMAIN tasks :
        /\ t2 \in tasks[t1].inflight
        /\ tasks[t1].move.player = tasks[t2].move.player
        /\ Applied(t1)
        /\ tasks[t2].pc = "done"
        /\ tasks[t2].kind = "not_your_turn"

----------------------------------------------------------------------------
(* C11: make_move checks in a fixed order. A call on an id that is not
   registered is answered not_found and changes no game; a call on a registered
   game onto an occupied cell is answered cell_taken whoever the player is, the
   wrong player included; a call by the wrong player is answered not_your_turn
   only when the cell is empty. The three answers are pairwise different. *)
C11_FailureOrder ==
    [][\A move \in MoveInputs :
          /\ make_move(UnknownGame, move) =>
                 /\ resp'.kind = "not_found"
                 /\ resp'.kind \notin Rejected
                 /\ games' = games
          /\ (G.board[move.row][move.col] # Empty /\ make_move(TheGame, move)) =>
                 resp'.kind = "cell_taken"
          /\ (/\ G.board[move.row][move.col] = Empty
              /\ move.player # G.current_player
              /\ make_move(TheGame, move)) =>
                 resp'.kind = "not_your_turn"]_vars

\* an occupied cell was turned down on a board where a cell holds the mark
\* whose turn it is not, so that the call may have come from either player
C11_Witness ==
    /\ resp.kind = "cell_taken"
    /\ \E c \in Cells : G.board[c[1]][c[2]] \in Marks \ {G.current_player}
    /\ \E c \in Cells : G.board[c[1]][c[2]] = Empty

----------------------------------------------------------------------------
(* The registry: games created and played side by side *)

MaxGames == 2

\* str(uuid.uuid4()): an id that no registered game has
IdPool == <<"g1", "g2", "g3">>
FreshId == IdPool[Cardinality(DOMAIN games) + 1]

\* POST /create_game, answered {"game_id": game_id}
create_game(against_algorithm) ==
    /\ \E game_id \in {FreshId} :
           /\ games' = [g \in DOMAIN games \cup {game_id} |->
                           IF g = game_id THEN NewGame(game_id, against_algorithm)
                           ELSE games[g]]
           /\ resp' = [kind |-> "created", winner |-> None, board |-> NoBoard,
                       next_player |-> None, game_id |-> game_id]
    /\ UNCHANGED <<probe, tasks>>

\* the ids and moves clients submit: every id handed out so far or not at
\* all, and both marks on a corner and on the centre, the two cells an
\* opening and its automated reply fill
RegistryIds == {IdPool[k] : k \in 1 .. MaxGames} \cup {UnknownGame}
RegistryCells == {<<0, 0>>, <<1, 1>>}
RegistryMoves == {move \in MoveInputs : <<move.row, move.col>> \in RegistryCells}

\* games = {}
InitRegistry ==
    /\ games = <<>>
    /\ resp = NoResponse
    /\ probe = None
    /\ tasks = <<>>

CreateGame ==
    /\ Cardinality(DOMAIN games) < MaxGames
    /\ Cardinality(DOMAIN games) < Len(IdPool)
    /\ \E against_algorithm \in BOOLEAN : create_game(against_algorithm)

MoveInRegistry ==
    \E game_id \in RegistryIds : \E move \in RegistryMoves : make_move(game_id, move)

ReadInRegistry == \E game_id \in RegistryIds : get_board(game_id)

NextRegistry == CreateGame \/ MoveInRegistry \/ ReadInRegistry

SpecRegistry == InitRegistry /\ [][NextRegistry]_vars

----------------------------------------------------------------------------
(* C12: games are isolated. No call removes a game; a make_move call on game_id,
   accepted or rejected, with or without an automated reply, leaves every other
   registered game (board, current_player, against_algorithm) as it was, so
   that at most one game changes per call; create_game leaves every game that
   existed as it was. *)
C12_GamesAreIsolated ==
    [][/\ DOMAIN games \subseteq DOMAIN games'
       /\ Cardinality({g \in DOMAIN games : games'[g] # games[g]}) <= 1
       /\ DOMAIN games' # DOMAIN games =>
              \A g \in DOMAIN games : games'[g] = games[g]
       /\ \A game_id \in RegistryIds : \A move \in RegistryMoves :
              make_move(game_id, move) =>
                  \A h \in DOMAIN games \ {game_id} : games'[h] = games[h]]_vars

\* a move and its automated reply were just made in one game while another
\* game holds marks of its own on a different board
C12_Witness ==
    \E g \in DOMAIN games : \E h \in DOMAIN games \ {g} :
        /\ games[g].against_algorithm
        /\ Count(games[g].board, "O") = 1
        /\ resp.kind = "next"
        /\ resp.board = games[g].board
        /\ Count(games[h].board, "X") = 1
        /\ games[h].board # games[g].board

----------------------------------------------------------------------------
(* C13: get_board is a pure read. It changes no game and not the registry; on
   a registered game it answers with that game's grid, so that a second
   get_board right after a first, with no move in between, answers with the
   identical grid; on an id that is not registered it answers not_found. *)
C13_GetBoardIsPure ==
    [][\A game_id \in IdInputs :
          get_board(game_id) =>
              /\ games' = games
              /\ game_id \notin DOMAIN games => resp' = NotFound
              /\ game_id \in DOMAIN games =>
                     /\ resp'.kind = "board"
                     /\ resp'.board = games[game_id].board
                     /\ resp.kind = "board" => resp'.board = resp.board]_vars

\* the grid of a game in play was read
C13_Witness ==
    /\ resp.kind = "board"
    /\ resp.board = G.board
    /\ Count(G.board, "X") >= 2
    /\ Count(G.board, "O") >= 1

----------------------------------------------------------------------------
(* C14: a won game stays in play. *)

\* Once a line is on the board, current_player is the mark that has the line
\* and no call changes it; a call by that mark onto an empty cell is accepted,
\* written to the board and answered with the same winner.
WinnerKeepsTheTurn ==
    AnyLine(G.board) =>
        /\ HasLine(G.board, G.current_player)
        /\ G'.current_player = G.current_player
        /\ \A move \in MoveInputs :
               (/\ move.player = G.current_player
                /\ G.board[move.row][move.col] = Empty
                /\ make_move(TheGame, move)) =>
                   /\ G'.board = Place(G.board, move.row, move.col, move.player)
                   /\ resp'.kind = "win"
                   /\ resp'.winner = G.current_player

\* C14 as the claim words it: after a win the winner keeps the turn and keeps
\* moving, and every call by the other mark is answered not_your_turn.
C14_AsStated ==
    [][/\ WinnerKeepsTheTurn
       /\ AnyLine(G.board) =>
              \A move \in MoveInputs :
                  (move.player # G.current_player /\ make_move(TheGame, move)) =>
                      /\ resp'.kind = "not_your_turn"
                      /\ games' = games]_vars

\* C14, amended: after a win the winner keeps the turn and keeps moving, and
\* every call by the other mark is turned down and changes nothing: answered
\* cell_taken when the cell is occupied, not_your_turn only when it is empty.
C14_WonGameStaysInPlay ==
    [][/\ WinnerKeepsTheTurn
       /\ AnyLine(G.board) =>
              \A move \in MoveInputs :
                  (move.player # G.current_player /\ make_move(TheGame, move)) =>
                      /\ games' = games
                      /\ resp'.kind = IF G.board[move.row][move.col] # Empty
                                      THEN "cell_taken" ELSE "not_your_turn"]_vars

\* the winner has moved again after the win: more marks than three of its own
\* and two of the other, on a board whose other mark was just turned down
C14_Witness ==
    /\ AnyLine(G.board)
    /\ Count(G.board, G.current_player) >= 4
    /\ Count(G.board, G.current_player) - Count(G.board, OtherPlayer(G.current_player)) >= 2
    /\ resp.kind = "not_your_turn"

----------------------------------------------------------------------------
(* C15: the winning lines of a board reached by play. *)

WinningLines(board) ==
    {line \in Lines : \E mark \in Marks : \A c \in line : board[c[1]][c[2]] = mark}

\* C15 as the claim words it: a board reached through accepted moves holds at
\* most one winning line.
C15_AsStated == Cardinality(WinningLines(G.board)) <= 1

\* C15, amended: a board reached through accepted moves may hold several
\* winning lines, but all of them are lines of one mark, and check_winner
\* returns that mark whatever line its scan meets first.
C15_LinesOfOneMark ==
    /\ ~(HasLine(G.board, "X") /\ HasLine(G.board, "O"))
    /\ \A mark \in Marks : check_winner(G.board) = mark <=> HasLine(G.board, mark)

\* one move has completed two lines at once: five X and four O, laid down in
\* turn, with nothing placed after the win
C15_Witness ==
    /\ Cardinality(WinningLines(G.board)) = 2
    /\ Count(G.board, "X") = 5
    /\ Count(G.board, "O") = 4
    /\ resp.kind = "win"
    /\ resp.winner = "X"

----------------------------------------------------------------------------
(* minimax called on the boards a search can hold *)

MaxEmpty == 4

\* boards with X to place or O to place next, lines of one mark at most, and
\* no more than MaxEmpty empty cells
SearchBoards ==
    {board \in AllBoards :
        /\ Cardinality(EmptyCells(board)) <= MaxEmpty
        /\ Count(board, "X") - Count(board, "O") \in {0, 1}
        /\ ~(HasLine(board, "X") /\ HasLine(board, "O"))}

\* minimax(board, depth, is_maximizing) is called with O to place when
\* is_maximizing and with X to place when not
InitMinimax ==
    /\ games = <<>>
    /\ resp = NoResponse
    /\ tasks = <<>>
    /\ \E board \in SearchBoards :
           probe = [board |-> board,
                    is_maximizing |-> Count(board, "X") > Count(board, "O"),
                    called |-> FALSE, score |-> 0, left |-> NoBoard]

\* score: what the call returns; left: the board list as the call leaves it
CallMinimax ==
    /\ ~probe.called
    /\ \E r \in {minimax_in_place(probe.board, 0, probe.is_maximizing)} :
           probe' = [probe EXCEPT !.called = TRUE, !.score = r.score, !.left = r.board]
    /\ UNCHANGED <<games, resp, tasks>>

NextMinimax == CallMinimax

SpecMinimax == InitMinimax /\ [][NextMinimax]_vars

----------------------------------------------------------------------------
(* C16 *)

\* O, with O to place when o_to_place, can force a line of three O whatever
\* X plays
RECURSIVE OForcesWin(_, _)
OForcesWin(board, o_to_place) ==
    IF HasLine(board, "O") THEN TRUE
    ELSE IF HasLine(board, "X") \/ Full(board) THEN FALSE
    ELSE IF o_to_place
         THEN \E c \in EmptyCells(board) : OForcesWin(Place(board, c[1], c[2], "O"), FALSE)
         ELSE \A c \in EmptyCells(board) : OForcesWin(Place(board, c[1], c[2], "X"), TRUE)

\* the value of a position for O under best play of both sides
Value(board, o_to_place) ==
    IF OForcesWin(board, o_to_place) THEN 1
    ELSE IF XForcesWin(board, IF o_to_place THEN "O" ELSE "X") THEN -1
    ELSE 0

\* C16: minimax returns a score in {-1, 0, 1} that is the value of the position
\* for O under best play of both sides (1 with a line of O, -1 with a line of
\* X, 0 on a full board without a line, otherwise the best over the empty
\* cells for the side that places), and the board list is left with exactly
\* the contents it had at the call. The score is also the one the engine's
\* search works with.
C16_MinimaxValue ==
    probe.called =>
        /\ probe.score \in {-1, 0, 1}
        /\ probe.score = Value(probe.board, probe.is_maximizing)
        /\ HasLine(probe.board, "O") => probe.score = 1
        /\ HasLine(probe.board, "X") => probe.score = -1
        /\ (Full(probe.board) /\ ~AnyLine(probe.board)) => probe.score = 0
        /\ probe.left = probe.board
        /\ probe.score = minimax(probe.board, 0, probe.is_maximizing)

\* a search that placed and took back marks several plies deep and found a
\* loss for O on a board with no line yet
C16_Witness ==
    /\ probe.called
    /\ Cardinality(EmptyCells(probe.board)) = MaxEmpty
    /\ ~AnyLine(probe.board)
    /\ probe.is_maximizing
    /\ probe.score = -1
    /\ probe.left = probe.board

----------------------------------------------------------------------------
(* C17 *)

\* c comes before d in row-major order: smaller row, then smaller column
Before(c, d) == c[1] < d[1] \/ (c[1] = d[1] /\ c[2] < d[2])

\* the minimax score of an O placed on the empty cell c, as the loop reads it
ReplyScore(board, c) == minimax(Place(board, c[1], c[2], "O"), 0, FALSE)

\* the empty cells with their scores, as pairs <<cell, score>>
Scored(board) == {<<c, ReplyScore(board, c)>> : c \in EmptyCells(board)}

\* the cells of the pairs whose score no pair exceeds
TopCells(scored) == {p[1] : p \in {q \in scored : \A r \in scored : r[2] <= q[2]}}

\* C17: make_algorithm_move picks, among the empty cells whose minimax score
\* is maximal, the first in row-major order; the cell is fixed by the board.
C17_FirstBestCell ==
    probe.called =>
        \E scored \in {Scored(probe.board)} :
            /\ probe.choice \in TopCells(scored)
            /\ \A d \in TopCells(scored) : ~Before(d, probe.choice)

\* several cells share the maximal score and an earlier empty cell scores
\* less, so that neither the first empty cell nor the last best cell is taken
C17_Witness ==
    /\ probe.called
    /\ \E scored \in {Scored(probe.board)} :
           /\ Cardinality(TopCells(scored)) >= 2
           /\ probe.choice \in TopCells(scored)
           /\ \E d \in EmptyCells(probe.board) \ TopCells(scored) :
                  Before(d, probe.choice)

----------------------------------------------------------------------------
(* C18: the automated move is made exactly once per accepted move that leaves
   an against-algorithm game undecided, and never otherwise. From every state
   play reaches, such a call leaves a board that differs from the board before
   it in exactly two cells, both empty before: the submitted cell, now X, and
   one other, now O. An accepted call in a human-only game, and one whose own
   mark leaves a line or a full board, changes exactly the submitted cell. A
   call that is turned down leaves the board as it was. *)
C18_OneReplyPerOpenMove ==
    \A move \in MoveInputs :
        \E out \in {Handle(G, move)} :
            IF G.board[move.row][move.col] = Empty /\ move.player = G.current_player
            THEN \E after \in {Place(G.board, move.row, move.col, move.player)} :
                     IF G.against_algorithm /\ ~AnyLine(after) /\ ~Full(after)
                     THEN /\ move.player = "X"
                          /\ Cardinality(Changed(G.board, out.game.board)) = 2
                          /\ \E o \in EmptyCells(after) :
                                 out.game.board = Place(after, o[1], o[2], "O")
                     ELSE /\ Changed(G.board, out.game.board) = {<<move.row, move.col>>}
                          /\ out.game.board = after
            ELSE out.game.board = G.board

\* a second exchange of a human X and an automated O has just been made
C18_Witness ==
    /\ G.against_algorithm
    /\ resp.kind = "next"
    /\ resp.board = G.board
    /\ Count(G.board, "X") = 2
    /\ Count(G.board, "O") = 2

\* the human's fifth X has filled the board of an against-algorithm game and
\* no automated move followed
C18_WitnessTie ==
    /\ G.against_algorithm
    /\ resp.kind = "tie"
    /\ Count(G.board, "X") = 5
    /\ Count(G.board, "O") = 4

----------------------------------------------------------------------------
(* C19 *)

\* the empty cells where an O completes a line of three O
WinningCells(board) ==
    {c \in EmptyCells(board) : HasLine(Place(board, c[1], c[2], "O"), "O")}

\* C19 as the claim words it: whenever the automated move is made on a board
\* where some empty cell completes a line of three O, the automated move
\* completes a line and the same call is answered with the winner O.
C19_AsStated ==
    \A move \in MoveInputs :
        (/\ G.against_algorithm
         /\ G.board[move.row][move.col] = Empty
         /\ move.player = G.current_player) =>
            \E after \in {Place(G.board, move.row, move.col, move.player)} :
                (~AnyLine(after) /\ ~Full(after) /\ WinningCells(after) # {}) =>
                    \E out \in {Handle(G, move)} :
                        /\ HasLine(out.game.board, "O")
                        /\ out.resp.kind = "win"
                        /\ out.resp.winner = "O"

\* C19, amended: whenever the automated move is made on a board where some
\* empty cell completes a line of three O, the automated move either
\* completes a line, and the same call is answered with the winner O, or is
\* placed on a cell that comes before every such cell in row-major order and
\* leaves O with a forced win whatever X plays: the win is kept but not
\* hastened, and that call is answered as a continuation.
C19_WinKeptNotHastened ==
    \A move \in MoveInputs :
        (/\ G.against_algorithm
         /\ G.board[move.row][move.col] = Empty
         /\ move.player = G.current_player) =>
            \E after \in {Place(G.board, move.row, move.col, move.player)} :
                (~AnyLine(after) /\ ~Full(after) /\ WinningCells(after) # {}) =>
                    \E out \in {Handle(G, move)} :
                        \/ /\ HasLine(out.game.board, "O")
                           /\ out.resp.kind = "win"
                           /\ out.resp.winner = "O"
                        \/ /\ ~AnyLine(out.game.board)
                           /\ out.resp.kind = "next"
                           /\ \E o \in EmptyCells(after) :
                                  /\ out.game.board = Place(after, o[1], o[2], "O")
                                  /\ \A w \in WinningCells(after) : Before(o, w)
                           /\ OForcesWin(out.game.board, FALSE)

\* X X O / O O . / . . X, which play against the automated player reaches in
\* one way only: X at (0,0), (0,1), (2,2), answered by O at (1,1), (0,2) and
\* then (1,0), although O at (2,0) would have completed the anti-diagonal
C19_Board ==
    [i \in Rng |-> [j \in Rng |->
        IF <<i, j>> \in {<<0, 0>>, <<0, 1>>, <<2, 2>>} THEN "X"
        ELSE IF <<i, j>> \in {<<0, 2>>, <<1, 0>>, <<1, 1>>} THEN "O"
        ELSE Empty]]

\* the automated move has passed over an immediate win
C19_Witness ==
    /\ G.against_algorithm
    /\ G.board = C19_Board
    /\ resp.kind = "next"
    /\ resp.board = C19_Board
    /\ <<2, 0>> \in WinningCells(Place(C19_Board, 1, 0, Empty))

----------------------------------------------------------------------------
(* C20: board cells are written once. Over any sequence of calls, a cell that
   holds a mark when a call returns holds the same mark after every later
   call, the automated reply and its search included: no call overwrites or
   clears a marked cell. *)
C20_CellsAreWrittenOnce ==
    [][\A c \in Cells :
          G.board[c[1]][c[2]] # Empty => G'.board[c[1]][c[2]] = G.board[c[1]][c[2]]]_vars

\* an against-algorithm game played until every cell is marked, and a call
\* onto one of its cells turned down thereafter
C20_Witness ==
    /\ G.against_algorithm
    /\ Full(G.board)
    /\ Count(G.board, "O") = 4
    /\ resp.kind = "cell_taken"

====
